---- MODULE Spec2Model ----
(***************************************************************************)
(* Miller-Rabin primality testing with Montgomery arithmetic               *)
(* (latonv/MillerRabinPrimality, src/src/index.ts and the Montgomery and   *)
(* utility modules it imports).                                            *)
(*                                                                         *)
(* One call of primalityTest is a small state machine: the position in    *)
(* the code is pc, the locals of the function are variables, and the       *)
(* promise settles either in result (resolve) or in error (reject).       *)
(* BigInt values are integers; an optional value (null / undefined or a   *)
(* value) is a sequence of length at most one.                            *)
(***************************************************************************)
EXTENDS Integers, Sequences, FiniteSets, TLC

(***************************************************************************)
(* Bounds of the model.                                                    *)
(***************************************************************************)
\* largest input n
MaxN == 35
\* most negative input is -MaxNegN
MaxNegN == 9
\* longest explicit bases array
MaxBases == 2
\* largest numRounds option supplied by the caller
MaxRounds == 2
\* largest entry of an explicit bases array
MaxBase == 7
\* longest bit length given to the choice of the number of rounds
MaxBits == 1001
\* largest modulus given to the Montgomery arithmetic on its own
MaxModulus == 63
\* largest exponent given to montgomeryPow on its own
MaxExp == 12
\* largest argument given to ugcd on its own
MaxGcdArg == 40
\* largest input n of the calls followed to their end
MaxCallN == 15
\* longest explicit bases array of those calls, and its largest entry
MaxCallBases == 2
MaxCallBase == 2

(***************************************************************************)
(* Optional values: null is the empty sequence.                            *)
(***************************************************************************)
None == << >>

Some(v) == << v >>

(***************************************************************************)
(* Integer utilities (src/src/index.ts, util part).                        *)
(***************************************************************************)
RECURSIVE Pow2(_)
\* ONE << k
Pow2(k) == IF k = 0 THEN 1 ELSE 2 * Pow2(k - 1)

RECURSIVE toString2(_)
\* n.toString(2) for n >= 0: the binary digits, most significant first
toString2(n) == IF n < 2 THEN << n >> ELSE Append(toString2(n \div 2), n % 2)

\* bitLength(n) = n.toString(2).length
bitLength(n) == Len(toString2(n))

RECURSIVE twoMultiplicityFrom(_, _)
\* the while (true) loop of twoMultiplicity, from candidate m
twoMultiplicityFrom(n, m) ==
  IF (n \div Pow2(m)) % 2 = 1 THEN m ELSE twoMultiplicityFrom(n, m + 1)

twoMultiplicity(n) == IF n = 0 THEN 0 ELSE twoMultiplicityFrom(n, 0)

RECURSIVE invertPowerOfTwoFrom(_, _, _, _)
\* the for loop of invertPowerOfTwo, at iteration i with candidate inv
invertPowerOfTwoFrom(inv, i, exp, base) ==
  IF i < exp
    THEN LET odd == IF inv % 2 = 1 THEN inv + base ELSE inv
         IN  invertPowerOfTwoFrom(odd \div 2, i + 1, exp, base)
    ELSE inv

invertPowerOfTwo(exp, base) == invertPowerOfTwoFrom(1, 0, exp, base)

(***************************************************************************)
(* ugcd (src/src/index.ts:126-156).                                        *)
(***************************************************************************)
RECURSIVE stripTwos(_)
\* while (!(a & ONE)) a >>= ONE;   (a is never 0 where the code runs it)
stripTwos(a) == IF a % 2 = 0 THEN stripTwos(a \div 2) ELSE a

RECURSIVE ugcdLoop(_, _)
\* while (a !== b && b > ONE) { ... } ; the value of b when the loop ends
ugcdLoop(a, b) ==
  IF a # b /\ b > 1
    THEN LET a1 == stripTwos(a)
             b1 == stripTwos(b)
         IN  IF b1 > a1 THEN ugcdLoop(b1 - a1, a1)
             ELSE IF a1 = b1 THEN b1
             ELSE ugcdLoop(a1 - b1, b1)
    ELSE b

RECURSIVE ugcdSharedNoShift(_, _, _)
\* ugcd without the shared factors of two put back at the end
ugcdSharedNoShift(a, b, sharedTwoFactors) ==
  IF a % 2 = 0 /\ b % 2 = 0
    THEN ugcdSharedNoShift(a \div 2, b \div 2, sharedTwoFactors + 1)
    ELSE ugcdLoop(a, b)

RECURSIVE ugcdShared(_, _, _)
\* while (!(a & ONE | b & ONE)) { sharedTwoFactors++; a >>= ONE; b >>= ONE; }
\* followed by the main loop and the final shift
ugcdShared(a, b, sharedTwoFactors) ==
  IF a % 2 = 0 /\ b % 2 = 0
    THEN ugcdShared(a \div 2, b \div 2, sharedTwoFactors + 1)
    ELSE ugcdLoop(a, b) * Pow2(sharedTwoFactors)

ugcd(a, b) ==
  IF a = b THEN a
  ELSE IF a = 0 THEN b
  ELSE IF b = 0 THEN a
  ELSE ugcdShared(a, b, 0)

(***************************************************************************)
(* getAdaptiveNumRounds (src/src/index.ts:167-173).                        *)
(***************************************************************************)
\* the thresholds taken inclusively
getAdaptiveNumRoundsInclusive(inputBits) ==
  IF inputBits >= 1000 THEN 2
  ELSE IF inputBits >= 500 THEN 3
  ELSE IF inputBits >= 250 THEN 4
  ELSE IF inputBits >= 150 THEN 5
  ELSE 6

getAdaptiveNumRounds(inputBits) ==
  IF inputBits > 1000 THEN 2
  ELSE IF inputBits > 500 THEN 3
  ELSE IF inputBits > 250 THEN 4
  ELSE IF inputBits > 150 THEN 5
  ELSE 6

(***************************************************************************)
(* Montgomery arithmetic (montgomery module).                              *)
(***************************************************************************)
\* the context with one more bit of shift than the bit length of the base
reductionContextOfWide(base) ==
  LET littleShift == bitLength(base) + 1
      r           == Pow2(littleShift)
      rInv        == invertPowerOfTwo(littleShift, base)
      baseInv     == r - (((rInv * r - 1) \div base) % r)
  IN  [base |-> base, shift |-> littleShift, r |-> r, rInv |-> rInv,
       baseInv |-> baseInv]

\* the record getReductionContext returns for an odd base
reductionContextOf(base) ==
  LET littleShift == bitLength(base)
      r           == Pow2(littleShift)
      rInv        == invertPowerOfTwo(littleShift, base)
      baseInv     == r - (((rInv * r - 1) \div base) % r)
  IN  [base |-> base, shift |-> littleShift, r |-> r, rInv |-> rInv,
       baseInv |-> baseInv]

\* getReductionContext: None stands for the throw of `base must be odd`
getReductionContext(base) ==
  IF base % 2 = 0 THEN None ELSE Some(reductionContextOf(base))

montgomeryReduce(n, ctx) == (n * Pow2(ctx.shift)) % ctx.base

invMontgomeryReduce(n, ctx) == (n * ctx.rInv) % ctx.base

\* montgomeryMul without the correction of a negative candidate (lines 122-124)
montgomeryMulNoWrap(a, b, ctx) ==
  IF a = 0 \/ b = 0 THEN 0
  ELSE LET unredProduct == a * b
           t       == (((unredProduct % ctx.r) * ctx.baseInv) % ctx.r) * ctx.base
           product == (unredProduct - t) \div ctx.r
       IN  IF product >= ctx.base THEN product - ctx.base ELSE product

montgomeryMul(a, b, ctx) ==
  IF a = 0 \/ b = 0 THEN 0
  ELSE LET unredProduct == a * b
           t       == (((unredProduct % ctx.r) * ctx.baseInv) % ctx.r) * ctx.base
           product == (unredProduct - t) \div ctx.r
       IN  IF product >= ctx.base THEN product - ctx.base
           ELSE IF product < 0 THEN product + ctx.base
           ELSE product

montgomerySqr(n, ctx) == montgomeryMul(n, n, ctx)

RECURSIVE montgomeryPowFrom(_, _, _, _, _, _)
\* the for loop of montgomeryPow at bit i, with running power x
montgomeryPowFrom(result, x, i, expLen, exp, ctx) ==
  IF i < expLen
    THEN LET res1 == IF (exp \div Pow2(i)) % 2 = 1
                       THEN montgomeryMul(result, x, ctx) ELSE result
         IN  montgomeryPowFrom(res1, montgomerySqr(x, ctx), i + 1, expLen, exp, ctx)
    ELSE result

\* montgomeryPow starting from the plain 1 instead of its Montgomery form
montgomeryPowPlainOne(n, exp, ctx) ==
  montgomeryPowFrom(1, n, 0, bitLength(exp), exp, ctx)

montgomeryPow(n, exp, ctx) ==
  montgomeryPowFrom(montgomeryReduce(1, ctx), n, 0, bitLength(exp), exp, ctx)

(***************************************************************************)
(* validateBases (src/src/index.ts:189-208).                               *)
(* The bases option is null/undefined (kind "null"), a value that is not  *)
(* an array (kind "scalar") or an array of integers (kind "array").       *)
(* The outcome is the returned array, null, or the error thrown.          *)
(***************************************************************************)
\* the range test with both ends exclusive: (2, n-2)
baseOutOfRangeExclusive(b, nSub) == ~(b > 2) \/ ~(b < nSub - 1)

\* the range test accepting n-1 as well
baseOutOfRangeInclusive(b, nSub) == ~(b >= 2) \/ ~(b <= nSub)

\* the test of line 199 that makes the map callback throw
baseOutOfRange(b, nSub) == ~(b >= 2) \/ ~(b < nSub)

\* an empty array treated like an absent bases option
validateBasesEmptyIsNull(bases, nSub) ==
  IF bases.kind = "null" THEN [kind |-> "null", bases |-> << >>]
  ELSE IF bases.kind = "array"
    THEN IF bases.items = << >> THEN [kind |-> "null", bases |-> << >>]
         ELSE IF \E k \in 1..Len(bases.items) :
                   baseOutOfRange(bases.items[k], nSub)
           THEN [kind |-> "RangeError", bases |-> << >>]
           ELSE [kind |-> "ok", bases |-> bases.items]
  ELSE [kind |-> "TypeError", bases |-> << >>]

validateBases(bases, nSub) ==
  IF bases.kind = "null" THEN [kind |-> "null", bases |-> << >>]
  ELSE IF bases.kind = "array"
    THEN IF \E k \in 1..Len(bases.items) : baseOutOfRange(bases.items[k], nSub)
           THEN [kind |-> "RangeError", bases |-> << >>]
           ELSE [kind |-> "ok", bases |-> bases.items]
  ELSE [kind |-> "TypeError", bases |-> << >>]

(***************************************************************************)
(* State of one call of primalityTest (src/src/index.ts:230-352).          *)
(***************************************************************************)
VARIABLES
  nIn,            \* the argument n, as given (signed)
  numRoundsOpt,   \* options.numRounds: None or Some(k)
  basesOpt,       \* options.bases
  findDivisor,    \* options.findDivisor
  pc,             \* position in primalityTest
  n,              \* the local n after the sign is stripped
  sign,           \* 1 or -1
  nBits, r, d,    \* bitLength(n), and n-1 = d * 2^r
  reductionContext, oneReduced, nSubReduced,
  validBases,     \* None (null) or Some(array)
  numRounds,      \* the loop bound
  probablePrime, witness, divisor,
  baseIndex, round, base, x, i,
  result,         \* None, or Some(record) once the promise is resolved
  error,          \* None, or Some(name) once the promise is rejected
  validated,      \* validateBases has been called in this call
  randomDrawn,    \* getRandomBitString has been called in this call
  prev            \* outcome of the previous call, None in the first call

inputs == << nIn, numRoundsOpt, basesOpt, findDivisor >>

locals == << n, sign, nBits, r, d, reductionContext, oneReduced, nSubReduced,
             validBases, numRounds, probablePrime, witness, divisor,
             baseIndex, round, base, x, i >>

history == << validated, randomDrawn, prev >>

vars == << inputs, pc, locals, result, error, history >>

Abs(v) == IF v < 0 THEN -v ELSE v

\* the values an entry of a bases array is drawn from: 0 and 1 are out of
\* range for every n, the others are out of range for the small n
BaseValues == 0..MaxBase

SeqsUpTo(S, len) == UNION { [1..k -> S] : k \in 0..len }

BasesChoices ==
  { [kind |-> "null", items |-> << >>], [kind |-> "scalar", items |-> << >>] }
  \cup { [kind |-> "array", items |-> s] : s \in SeqsUpTo(BaseValues, MaxBases) }

NumRoundsChoices == { None } \cup { Some(k) : k \in 0..MaxRounds }

\* the locals before the function body has run
FreshLocals ==
  /\ n = 0 /\ sign = 1 /\ nBits = 0 /\ r = 0 /\ d = 0
  /\ reductionContext = None /\ oneReduced = 0 /\ nSubReduced = 0
  /\ validBases = None /\ numRounds = None
  /\ probablePrime = TRUE /\ witness = None /\ divisor = None
  /\ baseIndex = 0 /\ round = 0 /\ base = 0 /\ x = 0 /\ i = 0

Init ==
  /\ nIn \in (-MaxNegN)..MaxN
  /\ numRoundsOpt \in NumRoundsChoices
  /\ basesOpt \in BasesChoices
  /\ findDivisor \in BOOLEAN
  /\ pc = "call"
  /\ FreshLocals
  /\ result = None /\ error = None
  /\ validated = FALSE /\ randomDrawn = FALSE
  /\ prev = None

PrimalityResult(rn, rpp, rw, rdiv) ==
  [n |-> rn, probablePrime |-> rpp, witness |-> rw, divisor |-> rdiv]

\* the special cases with n < 3 in place of n < 4
smallCaseBelowThree(m) ==
  IF m < 2 THEN "composite"
  ELSE IF m < 3 THEN "prime"
  ELSE IF m % 2 = 0 THEN "even"
  ELSE "test"

\* the special cases without the short-circuit for even n
smallCaseNoEven(m) ==
  IF m < 2 THEN "composite"
  ELSE IF m < 4 THEN "prime"
  ELSE "test"

(***************************************************************************)
(* Lines 244-253: the small special cases.                                 *)
(***************************************************************************)
smallCase(m) ==
  IF m < 2 THEN "composite"
  ELSE IF m < 4 THEN "prime"
  ELSE IF m % 2 = 0 THEN "even"
  ELSE "test"

(***************************************************************************)
(* Lines 233-265: normalisation, the small special cases, the              *)
(* decomposition of n-1 and the Montgomery context.                        *)
(***************************************************************************)
Begin ==
  /\ pc = "call"
  /\ LET sg   == IF nIn < 0 THEN -1 ELSE 1
         m    == IF sg = -1 THEN -nIn ELSE nIn
         case == smallCase(m)
         nSub == m - 1
         rr   == twoMultiplicity(nSub)
         ctx  == getReductionContext(m)
     IN  /\ sign' = sg
         /\ n' = m
         /\ IF case # "test"
              THEN /\ result' = Some(PrimalityResult(sg * m,
                                   case = "prime", None,
                                   IF case = "even" THEN Some(2) ELSE None))
                   /\ pc' = "done"
                   /\ UNCHANGED << nBits, r, d, reductionContext, oneReduced,
                                   nSubReduced, error >>
            ELSE IF ctx = None
              THEN /\ nBits' = bitLength(m)
                   /\ r' = rr
                   /\ d' = nSub \div Pow2(rr)
                   /\ error' = Some("Error")
                   /\ pc' = "failed"
                   /\ UNCHANGED << reductionContext, oneReduced, nSubReduced, result >>
            ELSE /\ nBits' = bitLength(m)
                 /\ r' = rr
                 /\ d' = nSub \div Pow2(rr)
                 /\ reductionContext' = ctx
                 /\ oneReduced' = montgomeryReduce(1, ctx[1])
                 /\ nSubReduced' = montgomeryReduce(nSub, ctx[1])
                 /\ pc' = "validate"
                 /\ UNCHANGED << result, error >>
  /\ UNCHANGED << inputs, validBases, numRounds, probablePrime, witness, divisor,
                  baseIndex, round, base, x, i, history >>

(***************************************************************************)
(* Lines 268-280: validateBases, the number of rounds, the loop's locals.  *)
(***************************************************************************)
\* the loop bound when a smaller numRounds caps the number of bases tested
chooseNumRoundsCapped(v, opt, bits) ==
  IF v.kind = "ok"
    THEN IF opt # None /\ opt[1] >= 1 /\ opt[1] < Len(v.bases)
           THEN opt ELSE Some(Len(v.bases))
  ELSE IF opt = None \/ opt[1] < 1 THEN Some(getAdaptiveNumRounds(bits))
  ELSE opt

\* lines 269-275 when the numRounds option is never honoured
chooseNumRoundsAlwaysAdaptive(v, opt, bits) ==
  IF v.kind = "ok" THEN Some(Len(v.bases))
  ELSE Some(getAdaptiveNumRounds(bits))

\* lines 269-275: the loop bound
chooseNumRounds(v, opt, bits) ==
  IF v.kind = "ok" THEN Some(Len(v.bases))
  ELSE IF opt = None \/ opt[1] < 1 THEN Some(getAdaptiveNumRounds(bits))
  ELSE opt

Validate ==
  /\ pc = "validate"
  /\ validated' = TRUE
  /\ LET v == validateBases(basesOpt, n - 1)
     IN  IF v.kind \in {"RangeError", "TypeError"}
           THEN /\ error' = Some(v.kind)
                /\ pc' = "failed"
                /\ UNCHANGED << validBases, numRounds >>
           ELSE /\ validBases' = IF v.kind = "ok" THEN Some(v.bases) ELSE None
                /\ numRounds' = chooseNumRounds(v, numRoundsOpt, nBits)
                /\ pc' = "loop"
                /\ UNCHANGED error
  /\ probablePrime' = TRUE /\ witness' = None /\ divisor' = None
  /\ baseIndex' = 0 /\ round' = 0
  /\ UNCHANGED << inputs, n, sign, nBits, r, d, reductionContext, oneReduced,
                  nSubReduced, base, x, i, result, randomDrawn, prev >>

(***************************************************************************)
(* Line 283-289: the head of the round loop.  With explicit bases the      *)
(* next base is taken from the list; otherwise a base has to be drawn.     *)
(* When the loop condition fails the function falls through to line 346.  *)
(***************************************************************************)
\* line 285 when the user-specified bases are never used
explicitBasesIgnored(vb) == FALSE

\* line 285: the user-specified bases are used when there are any
explicitBasesGiven(vb) == vb # None

NextRound ==
  /\ pc = "loop"
  /\ IF round < numRounds[1]
       THEN IF explicitBasesGiven(validBases)
              THEN /\ base' = validBases[1][baseIndex + 1]
                   /\ baseIndex' = baseIndex + 1
                   /\ pc' = "gcd"
              ELSE /\ pc' = "draw"
                   /\ UNCHANGED << base, baseIndex >>
       ELSE /\ pc' = "resolve"
            /\ UNCHANGED << base, baseIndex >>
  /\ UNCHANGED << inputs, n, sign, nBits, r, d, reductionContext, oneReduced,
                  nSubReduced, validBases, numRounds, probablePrime, witness,
                  divisor, round, x, i, result, error, history >>

(***************************************************************************)
(* Lines 291-293: one iteration of the do-while that draws a random base:  *)
(* nBits random bits, kept only when the value lies in [2, n-2].           *)
(***************************************************************************)
DrawBase ==
  /\ pc = "draw"
  /\ \E b \in 0..(Pow2(nBits) - 1) :
       /\ base' = b
       /\ pc' = IF baseOutOfRange(b, n - 1) THEN "draw" ELSE "gcd"
  /\ randomDrawn' = TRUE
  /\ UNCHANGED << inputs, n, sign, nBits, r, d, reductionContext, oneReduced,
                  nSubReduced, validBases, numRounds, probablePrime, witness,
                  divisor, baseIndex, round, x, i, result, error, validated,
                  prev >>

\* lines 297-305 when the common-factor check is never made
GcdCheckSkipped ==
  /\ pc = "gcd"
  /\ pc' = "pow"
  /\ UNCHANGED << inputs, n, sign, nBits, r, d, reductionContext, oneReduced,
                  nSubReduced, validBases, numRounds, probablePrime, witness,
                  divisor, baseIndex, round, base, x, i, result, error,
                  history >>

\* lines 297-305 when the verdict is left untouched by the common-factor check
GcdCheckKeepsVerdict ==
  /\ pc = "gcd"
  /\ IF findDivisor /\ ugcd(n, base) # 1
       THEN /\ witness' = Some(base)
            /\ divisor' = Some(ugcd(n, base))
            /\ pc' = "resolve"
            /\ UNCHANGED probablePrime
       ELSE /\ pc' = "pow"
            /\ UNCHANGED << probablePrime, witness, divisor >>
  /\ UNCHANGED << inputs, n, sign, nBits, r, d, reductionContext, oneReduced,
                  nSubReduced, validBases, numRounds, baseIndex, round, base,
                  x, i, result, error, history >>

(***************************************************************************)
(* Lines 297-305: the common-factor check.                                 *)
(***************************************************************************)
GcdCheck ==
  /\ pc = "gcd"
  /\ IF findDivisor /\ ugcd(n, base) # 1
       THEN /\ probablePrime' = FALSE
            /\ witness' = Some(base)
            /\ divisor' = Some(ugcd(n, base))
            /\ pc' = "resolve"
       ELSE /\ pc' = "pow"
            /\ UNCHANGED << probablePrime, witness, divisor >>
  /\ UNCHANGED << inputs, n, sign, nBits, r, d, reductionContext, oneReduced,
                  nSubReduced, validBases, numRounds, baseIndex, round, base,
                  x, i, result, error, history >>

(***************************************************************************)
(* Lines 307-313: x = base^d in Montgomery form; the round passes when x   *)
(* is 1 or n-1, otherwise the squaring loop starts with i = 0.             *)
(***************************************************************************)
\* line 309 testing base^d = 1 only
roundPassesOnlyOne(x0, one, nSubRed) == x0 = one

\* line 309: base^d = +/-1 (mod n)
roundPasses(x0, one, nSubRed) == x0 = one \/ x0 = nSubRed

PowStep ==
  /\ pc = "pow"
  /\ LET ctx         == reductionContext[1]
         baseReduced == montgomeryReduce(base, ctx)
         x0          == montgomeryPow(baseReduced, d, ctx)
     IN  /\ x' = x0
         /\ IF roundPasses(x0, oneReduced, nSubReduced)
              THEN /\ round' = round + 1
                   /\ pc' = "loop"
                   /\ UNCHANGED i
              ELSE /\ i' = 0
                   /\ pc' = "square"
                   /\ UNCHANGED round
  /\ UNCHANGED << inputs, n, sign, nBits, r, d, reductionContext, oneReduced,
                  nSubReduced, validBases, numRounds, probablePrime, witness,
                  divisor, baseIndex, base, result, error, history >>

\* the divisor recovery without the reset of a divisor 1 to null
recoverDivisorKeepOne(xv, ctx, m) ==
  Some(ugcd(invMontgomeryReduce(xv, ctx) - 1, m))

\* the divisor recovery taking gcd(x, n) instead of gcd(x - 1, n)
recoverDivisorNoMinusOne(xv, ctx, m) ==
  LET g == ugcd(invMontgomeryReduce(xv, ctx), m)
  IN  IF g = 1 THEN None ELSE Some(g)

\* the divisor recovery applied to the square of x, i.e. after the squaring
recoverDivisorFromSquare(xv, ctx, m) ==
  LET g == ugcd(invMontgomeryReduce(montgomerySqr(xv, ctx), ctx) - 1, m)
  IN  IF g = 1 THEN None ELSE Some(g)

\* lines 319-322 and 338-341: the divisor recovered from x, null when it is 1
recoverDivisor(xv, ctx, m) ==
  LET g == ugcd(invMontgomeryReduce(xv, ctx) - 1, m)
  IN  IF g = 1 THEN None ELSE Some(g)

(***************************************************************************)
(* Lines 313-331: one iteration of the squaring loop (i < r).              *)
(***************************************************************************)
SquareStep ==
  /\ pc = "square"
  /\ i < r
  /\ LET ctx == reductionContext[1]
         y   == montgomerySqr(x, ctx)
     IN  IF y = oneReduced
           THEN /\ probablePrime' = FALSE
                /\ witness' = Some(base)
                /\ divisor' = IF findDivisor THEN recoverDivisor(x, ctx, n) ELSE divisor
                /\ pc' = "resolve"
                /\ UNCHANGED << x, i, round >>
         ELSE IF y = nSubReduced
           THEN /\ round' = round + 1
                /\ pc' = "loop"
                /\ UNCHANGED << probablePrime, witness, divisor, x, i >>
         ELSE /\ x' = y
              /\ i' = i + 1
              /\ UNCHANGED << probablePrime, witness, divisor, round, pc >>
  /\ UNCHANGED << inputs, n, sign, nBits, r, d, reductionContext, oneReduced,
                  nSubReduced, validBases, numRounds, baseIndex, base, result,
                  error, history >>

\* lines 335-343 when the witness found does not end the round loop
SquaresExhaustedContinues ==
  /\ pc = "square"
  /\ i = r
  /\ probablePrime' = FALSE
  /\ witness' = Some(base)
  /\ divisor' = IF findDivisor THEN recoverDivisor(x, reductionContext[1], n)
                ELSE divisor
  /\ round' = round + 1
  /\ pc' = "loop"
  /\ UNCHANGED << inputs, n, sign, nBits, r, d, reductionContext, oneReduced,
                  nSubReduced, validBases, numRounds, baseIndex, base,
                  x, i, result, error, history >>

(***************************************************************************)
(* Lines 335-343: the squaring loop ran all r iterations.                  *)
(***************************************************************************)
SquaresExhausted ==
  /\ pc = "square"
  /\ i = r
  /\ probablePrime' = FALSE
  /\ witness' = Some(base)
  /\ divisor' = IF findDivisor THEN recoverDivisor(x, reductionContext[1], n)
                ELSE divisor
  /\ pc' = "resolve"
  /\ UNCHANGED << inputs, n, sign, nBits, r, d, reductionContext, oneReduced,
                  nSubReduced, validBases, numRounds, baseIndex, round, base,
                  x, i, result, error, history >>

\* line 346 when the sign is not put back on n
ResolveUnsigned ==
  /\ pc = "resolve"
  /\ result' = Some(PrimalityResult(n, probablePrime, witness, divisor))
  /\ pc' = "done"
  /\ UNCHANGED << inputs, locals, error, history >>

(***************************************************************************)
(* Line 346: the promise is resolved with the result record.               *)
(***************************************************************************)
Resolve ==
  /\ pc = "resolve"
  /\ result' = Some(PrimalityResult(sign * n, probablePrime, witness, divisor))
  /\ pc' = "done"
  /\ UNCHANGED << inputs, locals, error, history >>

(***************************************************************************)
(* The caller runs the test a second time on the same n with the same      *)
(* explicit bases and findDivisor, and any numRounds; the outcome of the   *)
(* first call is remembered in prev.                                       *)
(***************************************************************************)
Rerun ==
  /\ pc \in {"done", "failed"}
  /\ prev = None
  /\ basesOpt.kind = "array"
  /\ prev' = Some([nIn |-> nIn, result |-> result, error |-> error])
  /\ numRoundsOpt' \in NumRoundsChoices
  /\ pc' = "call"
  /\ n' = 0 /\ sign' = 1 /\ nBits' = 0 /\ r' = 0 /\ d' = 0
  /\ reductionContext' = None /\ oneReduced' = 0 /\ nSubReduced' = 0
  /\ validBases' = None /\ numRounds' = None
  /\ probablePrime' = TRUE /\ witness' = None /\ divisor' = None
  /\ baseIndex' = 0 /\ round' = 0 /\ base' = 0 /\ x' = 0 /\ i' = 0
  /\ result' = None /\ error' = None
  /\ validated' = FALSE /\ randomDrawn' = FALSE
  /\ UNCHANGED << nIn, basesOpt, findDivisor >>

(***************************************************************************)
(* The caller runs the test a second time on -n, with the same options.    *)
(***************************************************************************)
RerunNegated ==
  /\ pc \in {"done", "failed"}
  /\ prev = None
  /\ basesOpt.kind = "array"
  /\ nIn # 0
  /\ prev' = Some([nIn |-> nIn, result |-> result, error |-> error])
  /\ nIn' = -nIn
  /\ pc' = "call"
  /\ n' = 0 /\ sign' = 1 /\ nBits' = 0 /\ r' = 0 /\ d' = 0
  /\ reductionContext' = None /\ oneReduced' = 0 /\ nSubReduced' = 0
  /\ validBases' = None /\ numRounds' = None
  /\ probablePrime' = TRUE /\ witness' = None /\ divisor' = None
  /\ baseIndex' = 0 /\ round' = 0 /\ base' = 0 /\ x' = 0 /\ i' = 0
  /\ result' = None /\ error' = None
  /\ validated' = FALSE /\ randomDrawn' = FALSE
  /\ UNCHANGED << numRoundsOpt, basesOpt, findDivisor >>

Next ==
  \/ Begin
  \/ Validate
  \/ NextRound
  \/ DrawBase
  \/ GcdCheck
  \/ PowStep
  \/ SquareStep
  \/ SquaresExhausted
  \/ Resolve
  \/ Rerun
  \/ RerunNegated

Spec == Init /\ [][Next]_vars

(***************************************************************************)
(* Reference definitions for the properties: plain number theory, with no  *)
(* Montgomery forms.                                                       *)
(***************************************************************************)
IsPrime(m) == m >= 2 /\ \A k \in 2..(m - 1) : m % k # 0

RECURSIVE PowMod(_, _, _)
PowMod(a, e, m) == IF e = 0 THEN 1 % m ELSE (a * PowMod(a, e - 1, m)) % m

\* the exponent of 2 in m >= 1
TwoAdic(m) == CHOOSE k \in 0..m : m % Pow2(k) = 0 /\ m % Pow2(k + 1) # 0

\* m (odd, >= 5) is a strong probable prime to base a
StrongProbablePrime(m, a) ==
  LET rr == TwoAdic(m - 1)
      dd == (m - 1) \div Pow2(rr)
  IN  \/ PowMod(a, dd, m) = 1
      \/ \E j \in 0..(rr - 1) : PowMod(a, dd * Pow2(j), m) = m - 1

\* every entry of the bases option lies in [2, |n|-2]
BasesInRange ==
  \A k \in 1..Len(basesOpt.items) :
    basesOpt.items[k] >= 2 /\ basesOpt.items[k] <= Abs(nIn) - 2

Resolved == pc = "done"

Rejected == pc = "failed"

(***************************************************************************)
(* C1: a prime is never labelled composite.  When |n| is prime and the     *)
(* bases option is absent or an array whose entries all lie in            *)
(* [2, |n|-2], the call is never rejected, and it resolves with            *)
(* probablePrime = true, witness = null and divisor = null, whatever       *)
(* numRounds, findDivisor and the random draws are.                        *)
(***************************************************************************)
C1_PrimeNeverComposite ==
  (IsPrime(Abs(nIn)) /\ basesOpt.kind # "scalar" /\ BasesInRange) =>
    /\ ~Rejected
    /\ probablePrime = TRUE
    /\ Resolved => result = Some(PrimalityResult(nIn, TRUE, None, None))

\* a prime n >= 5 whose last round passed through the squaring loop
C1_Witness ==
  /\ Resolved /\ IsPrime(Abs(nIn)) /\ Abs(nIn) >= 5
  /\ round >= 1 /\ round = numRounds[1]
  /\ ~roundPasses(x, oneReduced, nSubReduced)
  /\ result[1].probablePrime

(***************************************************************************)
(* C2: with an explicit non-empty bases list accepted for an odd n >= 5,   *)
(* the verdict is the strong-probable-prime test: probablePrime is true    *)
(* exactly when every listed base a has a^d = 1 or a^(d*2^j) = n-1 (mod n) *)
(* for some 0 <= j < r.                                                    *)
(***************************************************************************)
C2_VerdictIsStrongTest ==
  (Resolved /\ validBases # None /\ Len(basesOpt.items) >= 1) =>
    (result[1].probablePrime
       <=> \A k \in 1..Len(basesOpt.items) :
             StrongProbablePrime(n, basesOpt.items[k]))

\* a composite n that is a strong pseudoprime to every listed base
C2_Witness ==
  /\ Resolved /\ validBases # None /\ Len(basesOpt.items) >= 1
  /\ ~IsPrime(n)
  /\ result[1].probablePrime

(***************************************************************************)
(* C3: in every result, a non-null divisor divides n exactly and is        *)
(* neither 1 nor |n|.                                                      *)
(***************************************************************************)
C3_DivisorNonTrivial ==
  (Resolved /\ result[1].divisor # None) =>
    LET dv == result[1].divisor[1]
    IN  /\ dv > 0
        /\ nIn % dv = 0
        /\ dv # 1
        /\ dv # Abs(nIn)

\* a divisor recovered from a square root of 1 (the base is coprime to n)
C3_Witness ==
  /\ Resolved /\ result[1].divisor # None
  /\ n % 2 = 1 /\ n >= 5
  /\ ugcd(n, base) = 1

(***************************************************************************)
(* C4: the inputs 0, 1, 2 and 3 are decided without any testing round and  *)
(* whatever the options are: 0 and 1 resolve with probablePrime = false,   *)
(* 2 and 3 with probablePrime = true, all with witness = null and          *)
(* divisor = null; no base is validated, no context is built.              *)
(***************************************************************************)
C4_TrivialInputs ==
  (nIn \in 0..3) =>
    /\ pc \in {"call", "done"}
    /\ ~validated /\ ~randomDrawn /\ reductionContext = None /\ round = 0
    /\ Resolved => result = Some(PrimalityResult(nIn, nIn \in {2, 3}, None, None))

\* 3 is resolved as prime although the bases option is not an array
C4_Witness ==
  /\ Resolved /\ nIn = 3 /\ basesOpt.kind = "scalar"
  /\ result[1].probablePrime

(***************************************************************************)
(* C5: every even n > 2 resolves with probablePrime = false, divisor = 2   *)
(* and witness = null, and no testing round is executed: no base is        *)
(* validated or drawn and no Montgomery context is built.                  *)
(***************************************************************************)
C5_EvenInputs ==
  (nIn > 2 /\ nIn % 2 = 0) =>
    /\ pc \in {"call", "done"}
    /\ ~validated /\ ~randomDrawn /\ reductionContext = None /\ round = 0
    /\ Resolved => result = Some(PrimalityResult(nIn, FALSE, None, Some(2)))

\* an even n resolved with divisor 2 although a listed base is out of range
C5_Witness ==
  /\ Resolved /\ nIn > 4 /\ nIn % 2 = 0
  /\ basesOpt.kind = "array" /\ ~BasesInRange
  /\ result[1].divisor = Some(2)

(***************************************************************************)
(* C6: supplying valid bases overrides numRounds.  The loop bound is the   *)
(* length of the list, the round with index k tests the k-th base of the   *)
(* list, at most bases.length rounds are run, and a second call with any   *)
(* other numRounds resolves with the same result.                          *)
(***************************************************************************)
C6_BasesOverrideNumRounds ==
  (validBases # None) =>
    /\ numRounds = Some(Len(basesOpt.items))
    /\ round <= Len(basesOpt.items)
    /\ baseIndex <= Len(basesOpt.items)
    /\ pc \in {"gcd", "pow", "square"} =>
         /\ baseIndex = round + 1
         /\ base = basesOpt.items[round + 1]
    /\ (Resolved /\ prev # None /\ prev[1].nIn = nIn) =>
         result = prev[1].result

\* two bases were tested although numRounds asked for one round, and the
\* first call had another numRounds
C6_Witness ==
  /\ Resolved /\ prev # None /\ prev[1].nIn = nIn
  /\ validBases # None /\ Len(basesOpt.items) = 2 /\ round = 2
  /\ numRoundsOpt = Some(1)
  /\ result = prev[1].result

(***************************************************************************)
(* C7 (as claimed): a bases array with an entry outside [2, n-2] makes the *)
(* call fail with a RangeError for every n, before any arithmetic or       *)
(* testing round runs: such a call never resolves, it is rejected with a   *)
(* RangeError only, and at that point no context has been built and no     *)
(* round has run.                                                          *)
(***************************************************************************)
C7_RangeErrorAlways ==
  (basesOpt.kind = "array" /\ ~BasesInRange) =>
    /\ ~Resolved
    /\ Rejected => /\ error = Some("RangeError")
                   /\ reductionContext = None
                   /\ round = 0

(***************************************************************************)
(* C8 (as claimed): a bases option that is specified but is not an array   *)
(* makes the call fail with a TypeError for every n: such a call never     *)
(* resolves, and it is rejected with a TypeError only.                     *)
(***************************************************************************)
C8_TypeErrorAlways ==
  (basesOpt.kind = "scalar") =>
    /\ ~Resolved
    /\ Rejected => error = Some("TypeError")

(***************************************************************************)
(* C9: with explicit bases the test is deterministic.  The random source   *)
(* is never consulted, and a second call with the same n, bases and        *)
(* findDivisor settles exactly as the first did: the same result record    *)
(* (n, probablePrime, witness, divisor) or the same error.                 *)
(***************************************************************************)
C9_ExplicitBasesDeterministic ==
  (basesOpt.kind = "array") =>
    /\ ~randomDrawn
    /\ (prev # None /\ prev[1].nIn = nIn /\ (Resolved \/ Rejected)) =>
         /\ result = prev[1].result
         /\ error = prev[1].error

\* the second call found the same witness and divisor as the first
C9_Witness ==
  /\ Resolved /\ prev # None /\ prev[1].nIn = nIn /\ basesOpt.kind = "array"
  /\ n % 2 = 1 /\ Len(basesOpt.items) = 2 /\ round = 1
  /\ result[1].witness # None /\ result[1].divisor # None
  /\ result = prev[1].result

(***************************************************************************)
(* C10 (as claimed): whenever the result has probablePrime = false, the    *)
(* result specifies a witness: witness is not null.                        *)
(***************************************************************************)
C10_CompositeHasWitness ==
  (Resolved /\ ~result[1].probablePrime) => result[1].witness # None

(***************************************************************************)
(* C11 (as claimed): when findDivisor is false no divisor is returned: the *)
(* divisor of the result is null for every input n and every other option. *)
(***************************************************************************)
C11_NoDivisorWhenOptedOut ==
  (Resolved /\ ~findDivisor) => result[1].divisor = None

\* m is the square of a prime
IsPrimeSquare(m) == \E p \in 2..m : IsPrime(p) /\ p * p = m

\* the prime whose square is m
PrimeRoot(m) == CHOOSE p \in 2..m : IsPrime(p) /\ p * p = m

(***************************************************************************)
(* C12 (as claimed): for every prime p, the test of p^2 with random bases  *)
(* and findDivisor = true always resolves with probablePrime = false and   *)
(* divisor = p, whatever bases are drawn.                                  *)
(***************************************************************************)
C12_SquareAlwaysComposite ==
  (Resolved /\ IsPrimeSquare(nIn) /\ basesOpt.kind = "null" /\ findDivisor) =>
    /\ result[1].probablePrime = FALSE
    /\ result[1].divisor = Some(PrimeRoot(nIn))

(***************************************************************************)
(* C12 (amended): for every prime p, the test of p^2 with random bases and *)
(* findDivisor = true resolves with probablePrime = false and divisor = p  *)
(* unless every base drawn is a strong liar for p^2; in that case it       *)
(* resolves with probablePrime = true and divisor = null.  A composite     *)
(* verdict for p^2 therefore always carries the divisor p.                 *)
(***************************************************************************)
C12_SquareDivisorWhenComposite ==
  (Resolved /\ IsPrimeSquare(nIn) /\ basesOpt.kind = "null" /\ findDivisor) =>
    IF result[1].probablePrime
      THEN /\ result[1].divisor = None
           /\ nIn >= 5 /\ round = numRounds[1]
           /\ StrongProbablePrime(nIn, base)
      ELSE /\ result[1].divisor = Some(PrimeRoot(nIn))
           /\ nIn >= 5 => /\ result[1].witness = Some(base)
                          /\ ~StrongProbablePrime(nIn, base)

\* p is recovered from x for a drawn base that is coprime to p^2
C12_Witness ==
  /\ Resolved /\ IsPrimeSquare(nIn) /\ nIn % 2 = 1
  /\ basesOpt.kind = "null" /\ findDivisor
  /\ ugcd(n, base) = 1
  /\ result[1].probablePrime = FALSE
  /\ result[1].divisor = Some(PrimeRoot(nIn))

\* the greatest common divisor, by Euclid's algorithm
RECURSIVE EuclidGcd(_, _)
EuclidGcd(a, b) == IF b = 0 THEN a ELSE EuclidGcd(b, a % b)

(***************************************************************************)
(* The documented example: the input 91 tested against one explicit base,  *)
(* any base of [2, 89], the documented witness 23 among them.               *)
(***************************************************************************)
ReadmeN == 91

ReadmeWitness == 23

ReadmeDivisor == 7

InitReadme ==
  /\ nIn = ReadmeN
  /\ numRoundsOpt \in NumRoundsChoices
  /\ basesOpt \in { [kind |-> "array", items |-> << b >>] :
                      b \in 2..(ReadmeN - 2) }
  /\ findDivisor \in BOOLEAN
  /\ pc = "call"
  /\ FreshLocals
  /\ result = None /\ error = None
  /\ validated = FALSE /\ randomDrawn = FALSE
  /\ prev = None

\* the steps of a call with explicit bases
NextExplicit ==
  \/ Begin
  \/ Validate
  \/ NextRound
  \/ GcdCheck
  \/ PowStep
  \/ SquareStep
  \/ SquaresExhausted
  \/ Resolve

SpecReadme == InitReadme /\ [][NextExplicit]_vars

(***************************************************************************)
(* C13: the documented example holds when 23 is the base tested.  The call *)
(* primalityTest(91) with bases = [23] and findDivisor = true resolves     *)
(* with n = 91, probablePrime = false, witness = 23 and divisor = 7, and   *)
(* the divisor is gcd(x - 1, 91) for the value x = 23^45 mod 91 held       *)
(* before the squaring that produced 1.                                    *)
(***************************************************************************)
C13_ReadmeExample ==
  (Resolved /\ basesOpt.items = << ReadmeWitness >> /\ findDivisor) =>
    /\ result = Some(PrimalityResult(ReadmeN, FALSE, Some(ReadmeWitness),
                                     Some(ReadmeDivisor)))
    /\ LET ctx   == reductionContext[1]
           plain == invMontgomeryReduce(x, ctx)
       IN  /\ plain = PowMod(ReadmeWitness, d, ReadmeN)
           /\ plain # 1 /\ plain # ReadmeN - 1
           /\ (plain * plain) % ReadmeN = 1
           /\ montgomerySqr(x, ctx) = oneReduced
           /\ EuclidGcd(plain - 1, ReadmeN) = ReadmeDivisor

\* the example has run: 23 was tested against 91 and the divisor 7 returned
C13_Witness ==
  /\ Resolved /\ nIn = ReadmeN /\ findDivisor
  /\ base = ReadmeWitness /\ i = 0 /\ d = 45
  /\ result[1].witness = Some(ReadmeWitness)
  /\ result[1].divisor = Some(ReadmeDivisor)

(***************************************************************************)
(* C14: the sign of the input is cosmetic.  The n field of every result    *)
(* is the original signed input, and the calls on n and on -n with the     *)
(* same bases and findDivisor settle alike: the same probablePrime,        *)
(* witness and divisor, or the same error.                                 *)
(***************************************************************************)
C14_SignIsCosmetic ==
  /\ Resolved => result[1].n = nIn
  /\ (prev # None /\ prev[1].nIn = -nIn /\ nIn # 0
        /\ (Resolved \/ Rejected)) =>
       /\ error = prev[1].error
       /\ (result = None) <=> (prev[1].result = None)
       /\ Resolved =>
            /\ result[1].n = -prev[1].result[1].n
            /\ result[1].probablePrime = prev[1].result[1].probablePrime
            /\ result[1].witness = prev[1].result[1].witness
            /\ result[1].divisor = prev[1].result[1].divisor

\* a negative odd composite got the witness and divisor its absolute value
\* got in the first call
C14_Witness ==
  /\ Resolved /\ prev # None /\ nIn < 0 /\ prev[1].nIn = -nIn
  /\ n % 2 = 1 /\ n >= 5 /\ round = 1
  /\ result[1].n = nIn
  /\ result[1].witness # None /\ result[1].divisor # None
  /\ result[1].witness = prev[1].result[1].witness
  /\ result[1].divisor = prev[1].result[1].divisor

(***************************************************************************)
(* The choice of the number of rounds on its own (lines 268-275 with no    *)
(* bases option): the bit length of n is drawn from 1..MaxBits, numRounds  *)
(* is absent or an integer, and one step applies the choice.               *)
(***************************************************************************)
InitRounds ==
  /\ nIn = 0
  /\ numRoundsOpt \in NumRoundsChoices
  /\ basesOpt = [kind |-> "null", items |-> << >>]
  /\ findDivisor \in BOOLEAN
  /\ pc = "validate"
  /\ nBits \in 1..MaxBits
  /\ n = 0 /\ sign = 1 /\ r = 0 /\ d = 0
  /\ reductionContext = None /\ oneReduced = 0 /\ nSubReduced = 0
  /\ validBases = None /\ numRounds = None
  /\ probablePrime = TRUE /\ witness = None /\ divisor = None
  /\ baseIndex = 0 /\ round = 0 /\ base = 0 /\ x = 0 /\ i = 0
  /\ result = None /\ error = None
  /\ validated = FALSE /\ randomDrawn = FALSE
  /\ prev = None

ChooseRounds ==
  /\ pc = "validate"
  /\ numRounds' = chooseNumRounds(validateBases(basesOpt, n - 1),
                                  numRoundsOpt, nBits)
  /\ validated' = TRUE
  /\ pc' = "loop"
  /\ UNCHANGED << inputs, n, sign, nBits, r, d, reductionContext, oneReduced,
                  nSubReduced, validBases, probablePrime, witness, divisor,
                  baseIndex, round, base, x, i, result, error, randomDrawn,
                  prev >>

NextRounds == ChooseRounds

SpecRounds == InitRounds /\ [][NextRounds]_vars

\* the number of rounds documented for an input of b bits
DocumentedRounds(b) ==
  IF b > 1000 THEN 2
  ELSE IF b > 500 THEN 3
  ELSE IF b > 250 THEN 4
  ELSE IF b > 150 THEN 5
  ELSE 6

(***************************************************************************)
(* C15: with no bases array and numRounds absent or less than 1, the       *)
(* number of rounds depends on the bit length b of n alone: 2 if b > 1000, *)
(* 3 if b > 500, 4 if b > 250, 5 if b > 150, otherwise 6, and a longer     *)
(* input never gets more rounds; a numRounds >= 1 is used unchanged.       *)
(***************************************************************************)
C15_AdaptiveRounds ==
  (pc = "loop" /\ basesOpt.kind = "null") =>
    IF numRoundsOpt = None \/ numRoundsOpt[1] < 1
      THEN /\ numRounds = Some(DocumentedRounds(nBits))
           /\ \A b \in 1..nBits :
                getAdaptiveNumRounds(b) >= getAdaptiveNumRounds(nBits)
      ELSE numRounds = numRoundsOpt

\* an input of exactly 1000 bits with numRounds = 0 gets 3 rounds
C15_Witness ==
  /\ pc = "loop" /\ basesOpt.kind = "null"
  /\ nBits = 1000 /\ numRoundsOpt = Some(0)
  /\ numRounds = Some(3)

(***************************************************************************)
(* C16: with no bases and an integer numRounds = k >= 1, at most k random  *)
(* bases are tested for an odd n >= 5.  The loop bound is k, a base is     *)
(* drawn or tested only while fewer than k rounds have passed, the result  *)
(* has probablePrime = true only after exactly k rounds passed, and the    *)
(* first round that finds a witness ends the test: from then on only the   *)
(* resolution remains, fewer than k rounds have passed and the witness is  *)
(* the base of that round.                                                 *)
(***************************************************************************)
C16_RandomRoundsBounded ==
  (/\ basesOpt.kind = "null"
   /\ numRoundsOpt # None /\ numRoundsOpt[1] >= 1
   /\ Abs(nIn) % 2 = 1 /\ Abs(nIn) >= 5
   /\ pc \notin {"call", "validate"}) =>
    LET k == numRoundsOpt[1]
    IN  /\ numRounds = Some(k)
        /\ round <= k
        /\ pc \in {"draw", "gcd", "pow", "square"} => round < k
        /\ (Resolved /\ result[1].probablePrime) => round = k
        /\ ~probablePrime =>
             /\ pc \in {"resolve", "done"}
             /\ round < k
             /\ witness = Some(base)
        /\ Resolved => result[1].probablePrime = probablePrime

\* two rounds were asked for and the first one found a witness: the second
\* round was not run
C16_Witness ==
  /\ Resolved /\ basesOpt.kind = "null" /\ numRoundsOpt = Some(2)
  /\ Abs(nIn) % 2 = 1 /\ Abs(nIn) >= 5
  /\ ~result[1].probablePrime /\ round = 0
  /\ result[1].witness = Some(base)

(***************************************************************************)
(* C17: a probable-prime verdict carries no witness and no divisor.  In    *)
(* every result with probablePrime = true, witness and divisor are null,   *)
(* and while the test runs, witness and divisor stay null as long as       *)
(* probablePrime is true.                                                  *)
(***************************************************************************)
C17_ProbablePrimeHasNoWitness ==
  /\ (Resolved /\ result[1].probablePrime) =>
       /\ result[1].witness = None
       /\ result[1].divisor = None
  /\ probablePrime => (witness = None /\ divisor = None)

\* a composite that passed every round is reported without witness or divisor
C17_Witness ==
  /\ Resolved /\ findDivisor /\ ~IsPrime(n) /\ n >= 5
  /\ round >= 1 /\ round = numRounds[1]
  /\ result[1].probablePrime
  /\ result[1].witness = None /\ result[1].divisor = None

\* with explicit bases: the state once a witness has been found
C19_FirstWitness ==
  (validBases # None) =>
    /\ pc \in {"gcd", "pow", "square"} =>
         /\ baseIndex = round + 1
         /\ base = basesOpt.items[round + 1]
    /\ ~probablePrime =>
         /\ pc \in {"resolve", "done"}
         /\ baseIndex = round + 1
         /\ witness = Some(basesOpt.items[round + 1])
         /\ ~StrongProbablePrime(n, basesOpt.items[round + 1])
         /\ \A k \in 1..round : StrongProbablePrime(n, basesOpt.items[k])
         /\ Resolved =>
              result = Some(PrimalityResult(nIn, FALSE, witness, divisor))

\* a step taken after a witness was found, up to the resolution
C19_CompositeIsTerminal ==
  (~probablePrime /\ pc # "done") =>
    /\ pc' = "done"
    /\ UNCHANGED << probablePrime, witness, divisor, round, baseIndex, base >>

(***************************************************************************)
(* C19: the search stops at the first witness and the composite state is   *)
(* terminal.  With an explicit list the rounds run in list order, the      *)
(* witness of the result is the first base of the list that proves n       *)
(* composite (every base before it passes the strong test, it does not),   *)
(* no base after it is taken from the list, and once probablePrime is      *)
(* false the only step left is the resolution, which changes none of       *)
(* probablePrime, witness and divisor.                                     *)
(***************************************************************************)
C19_StopsAtFirstWitness ==
  /\ []C19_FirstWitness
  /\ [][C19_CompositeIsTerminal]_vars

\* the first base of the list is a strong liar, the second one is the witness
C19_Witness ==
  /\ Resolved /\ validBases # None /\ Len(basesOpt.items) = 2
  /\ round = 1 /\ ~result[1].probablePrime
  /\ StrongProbablePrime(n, basesOpt.items[1])
  /\ result[1].witness = Some(basesOpt.items[2])

\* with findDivisor: no exponentiation is made for a base that shares a
\* factor with n, and a result reached from such a base reports it
C20_SharedFactorState ==
  findDivisor =>
    /\ pc \in {"pow", "square"} => EuclidGcd(n, base) = 1
    /\ (pc \in {"resolve", "done"} /\ reductionContext # None
          /\ round < numRounds[1] /\ EuclidGcd(n, base) # 1) =>
         /\ probablePrime = FALSE
         /\ witness = Some(base)
         /\ divisor = Some(EuclidGcd(n, base))
         /\ Resolved =>
              result = Some(PrimalityResult(nIn, FALSE, Some(base),
                                            Some(EuclidGcd(n, base))))

\* the step of a round whose base shares a factor with n
C20_SharedFactorStep ==
  (pc = "gcd" /\ findDivisor /\ EuclidGcd(n, base) # 1) =>
    /\ pc' = "resolve"
    /\ probablePrime' = FALSE
    /\ witness' = Some(base)
    /\ divisor' = Some(EuclidGcd(n, base))
    /\ UNCHANGED << x, i, round, baseIndex, base >>

(***************************************************************************)
(* C20: with findDivisor enabled, a round whose base a shares a factor     *)
(* with n ends the whole test immediately with probablePrime = false,      *)
(* witness = a and divisor = gcd(n, a).  The step taken for such a base    *)
(* goes straight to the resolution and leaves x and the round counter      *)
(* untouched: no modular exponentiation is made for that base and no       *)
(* later round is run.                                                     *)
(***************************************************************************)
C20_SharedFactorEndsTest ==
  /\ []C20_SharedFactorState
  /\ [][C20_SharedFactorStep]_vars

\* the first of two rounds met a base sharing a factor with an odd n: the
\* result reports it, x was never computed and the second round never ran
C20_Witness ==
  /\ Resolved /\ findDivisor /\ n % 2 = 1 /\ n >= 5
  /\ numRounds = Some(2) /\ round = 0 /\ x = 0
  /\ EuclidGcd(n, base) # 1
  /\ result[1].witness = Some(base)
  /\ result[1].divisor = Some(EuclidGcd(n, base))

(***************************************************************************)
(* The legacy entry point testPrimality (src/index.js:86-184), which       *)
(* requires src/montgomery.js as mont.  bitLength and twoMultiplicity of   *)
(* src/montgomery.js (lines 11 and 23) have the code of bitLength and      *)
(* twoMultiplicity above.                                                  *)
(***************************************************************************)
InitLegacy ==
  /\ nIn \in (-MaxNegN)..MaxN
  /\ numRoundsOpt \in NumRoundsChoices
  /\ basesOpt = [kind |-> "null", items |-> << >>]
  /\ findDivisor \in BOOLEAN
  /\ pc = "call"
  /\ FreshLocals
  /\ result = None /\ error = None
  /\ validated = FALSE /\ randomDrawn = FALSE
  /\ prev = None

(***************************************************************************)
(* src/index.js:89-110 and 180.  The small cases resolve at lines 92-102.  *)
(* For every other n, lines 104-108 compute nBits, r and d, and line 110   *)
(* calls mont.mont(n): src/montgomery.js:207 exports reductionContextFor,  *)
(* reduce, invReduce, sqr, mul, pow, bitLength, twoMultiplicity and gcd,   *)
(* and no mont, so the call throws a TypeError and the catch of line 180   *)
(* rejects the promise.  The round loop of lines 125-176 is never entered. *)
(***************************************************************************)
LegacyBegin ==
  /\ pc = "call"
  /\ LET m    == nIn
         case == smallCase(m)
         nSub == m - 1
         rr   == twoMultiplicity(nSub)
     IN  /\ n' = m
         /\ IF case # "test"
              THEN /\ result' = Some(PrimalityResult(m, case = "prime", None,
                                   IF case = "even" THEN Some(2) ELSE None))
                   /\ pc' = "done"
                   /\ UNCHANGED << nBits, r, d, error >>
              ELSE /\ nBits' = bitLength(m)
                   /\ r' = rr
                   /\ d' = nSub \div Pow2(rr)
                   /\ error' = Some("TypeError")
                   /\ pc' = "failed"
                   /\ UNCHANGED result
  /\ UNCHANGED << inputs, sign, reductionContext, oneReduced, nSubReduced,
                  validBases, numRounds, probablePrime, witness, divisor,
                  baseIndex, round, base, x, i, history >>

NextLegacy == LegacyBegin

SpecLegacy == InitLegacy /\ [][NextLegacy]_vars

C21_BaseInRange ==
  /\ pc \in {"gcd", "pow", "square"} => (base >= 2 /\ base <= n - 2)
  /\ witness # None => (witness[1] >= 2 /\ witness[1] <= n - 2)
  /\ pc = "draw" =>
       \A b \in 2..(n - 2) : ENABLED (DrawBase /\ base' = b /\ pc' = "gcd")

\* a draw outside [2, n-2] is followed by another draw
C21_DrawAgain ==
  (pc = "draw" /\ (base' < 2 \/ base' > n - 2)) => pc' = "draw"

(***************************************************************************)
(* C21: every base used in a testing round, taken from the explicit list   *)
(* or drawn at random, lies in [2, n-2].  A random draw outside that range *)
(* is discarded and drawn again, so it never reaches the gcd check or the  *)
(* exponentiation, and every value of [2, n-2] can be drawn.               *)
(***************************************************************************)
C21_BasesStayInRange ==
  /\ []C21_BaseInRange
  /\ [][C21_DrawAgain]_vars

\* the largest admissible base n-2 was drawn and goes to the gcd check
C21_Witness ==
  /\ pc = "gcd" /\ randomDrawn /\ n >= 7
  /\ base = n - 2

(***************************************************************************)
(* The Montgomery module on its own.  n is the modulus handed to           *)
(* getReductionContext, reductionContext the context it returns; one       *)
(* operation is then applied to operands drawn from [0, n): base and i are *)
(* the plain operands a and b, d is the exponent, x is the value the       *)
(* operation returns (a Montgomery form).                                  *)
(***************************************************************************)
InitMont ==
  /\ n \in 0..MaxModulus
  /\ pc = "modulus"
  /\ nIn = 0 /\ numRoundsOpt = None /\ findDivisor = TRUE
  /\ basesOpt = [kind |-> "null", items |-> << >>]
  /\ sign = 1 /\ nBits = 0 /\ r = 0 /\ d = 0
  /\ reductionContext = None /\ oneReduced = 0 /\ nSubReduced = 0
  /\ validBases = None /\ numRounds = None
  /\ probablePrime = TRUE /\ witness = None /\ divisor = None
  /\ baseIndex = 0 /\ round = 0 /\ base = 0 /\ x = 0 /\ i = 0
  /\ result = None /\ error = None
  /\ validated = FALSE /\ randomDrawn = FALSE
  /\ prev = None

\* getReductionContext(n): the context, or the throw for an even modulus
MontContext ==
  /\ pc = "modulus"
  /\ LET ctx == getReductionContext(n)
     IN  IF ctx = None
           THEN /\ error' = Some("Error")
                /\ pc' = "failed"
                /\ UNCHANGED reductionContext
           ELSE /\ reductionContext' = ctx
                /\ pc' = "context"
                /\ UNCHANGED error
  /\ UNCHANGED << inputs, n, sign, nBits, r, d, oneReduced, nSubReduced,
                  validBases, numRounds, probablePrime, witness, divisor,
                  baseIndex, round, base, x, i, result, history >>

\* montgomeryMul applied to the Montgomery forms of a and b
MontMul ==
  /\ pc = "context"
  /\ \E a \in 0..(n - 1), b \in 0..(n - 1) :
       LET ctx == reductionContext[1]
       IN  /\ base' = a
           /\ i' = b
           /\ x' = montgomeryMul(montgomeryReduce(a, ctx),
                                 montgomeryReduce(b, ctx), ctx)
  /\ pc' = "mul"
  /\ UNCHANGED << inputs, n, sign, nBits, r, d, reductionContext, oneReduced,
                  nSubReduced, validBases, numRounds, probablePrime, witness,
                  divisor, baseIndex, round, result, error, history >>

\* montgomerySqr applied to the Montgomery form of a
MontSqr ==
  /\ pc = "context"
  /\ \E a \in 0..(n - 1) :
       LET ctx == reductionContext[1]
       IN  /\ base' = a
           /\ x' = montgomerySqr(montgomeryReduce(a, ctx), ctx)
  /\ pc' = "sqr"
  /\ UNCHANGED << inputs, n, sign, nBits, r, d, reductionContext, oneReduced,
                  nSubReduced, validBases, numRounds, probablePrime, witness,
                  divisor, baseIndex, round, i, result, error, history >>

\* montgomeryPow applied to the Montgomery form of a and a plain exponent
MontPow ==
  /\ pc = "context"
  /\ \E a \in 0..(n - 1), e \in 0..MaxExp :
       LET ctx == reductionContext[1]
       IN  /\ base' = a
           /\ d' = e
           /\ x' = montgomeryPow(montgomeryReduce(a, ctx), e, ctx)
  /\ pc' = "pow"
  /\ UNCHANGED << inputs, n, sign, nBits, r, reductionContext, oneReduced,
                  nSubReduced, validBases, numRounds, probablePrime, witness,
                  divisor, baseIndex, round, i, result, error, history >>

NextMont ==
  \/ MontContext
  \/ MontMul
  \/ MontSqr
  \/ MontPow

SpecMont == InitMont /\ [][NextMont]_vars

(***************************************************************************)
(* C22: Montgomery multiplication is correct and canonical.  For every odd *)
(* modulus m >= 3 and all a, b in [0, m), the product of the Montgomery    *)
(* forms of a and b is the Montgomery form of a*b mod m, lies in [0, m),   *)
(* and converts back to a*b mod m; it is 0 when an operand is 0; and       *)
(* montgomerySqr(x) equals montgomeryMul(x, x).                            *)
(***************************************************************************)
C22_MontgomeryMulCorrect ==
  (n >= 3 /\ pc \in {"mul", "sqr"}) =>
    LET ctx == reductionContext[1]
        b   == IF pc = "mul" THEN i ELSE base
        aR  == montgomeryReduce(base, ctx)
        bR  == montgomeryReduce(b, ctx)
    IN  /\ x = montgomeryReduce((base * b) % n, ctx)
        /\ x >= 0 /\ x < n
        /\ invMontgomeryReduce(x, ctx) = (base * b) % n
        /\ (base = 0 \/ b = 0) => x = 0
        /\ montgomeryMul(0, bR, ctx) = 0 /\ montgomeryMul(aR, 0, ctx) = 0
        /\ pc = "sqr" => x = montgomeryMul(aR, aR, ctx)

\* a product whose candidate (t - c) >> shift is negative before the wrap
C22_Witness ==
  /\ pc = "mul" /\ n >= 3 /\ base # 0 /\ i # 0
  /\ LET ctx == reductionContext[1]
         aR  == montgomeryReduce(base, ctx)
         bR  == montgomeryReduce(i, ctx)
     IN  /\ montgomeryMulNoWrap(aR, bR, ctx) < 0
         /\ x = montgomeryReduce((base * i) % n, ctx)

(***************************************************************************)
(* C23: Montgomery exponentiation is correct.  For every odd modulus       *)
(* m >= 3, every a in [0, m) and every plain exponent e >= 0, montgomeryPow *)
(* of the Montgomery form of a is the Montgomery form of a^e mod m; for    *)
(* e = 0 it is the Montgomery form of 1.                                   *)
(***************************************************************************)
C23_MontgomeryPowCorrect ==
  (n >= 3 /\ pc = "pow") =>
    LET ctx == reductionContext[1]
    IN  /\ x = montgomeryReduce(PowMod(base, d, n), ctx)
        /\ invMontgomeryReduce(x, ctx) = PowMod(base, d, n)
        /\ d = 0 => x = montgomeryReduce(1, ctx)

\* a power whose exponent 11 has several bits set
C23_Witness ==
  /\ pc = "pow" /\ n >= 5 /\ base >= 2 /\ d = 11
  /\ x = montgomeryReduce(PowMod(base, d, n), reductionContext[1])
  /\ x # montgomeryReduce(1, reductionContext[1])

(***************************************************************************)
(* C24: the Montgomery context is well formed.  For every odd modulus      *)
(* m >= 3, shift = bitLength(m) and r = 2^shift is the smallest power of   *)
(* two exceeding m; rInv = invertPowerOfTwo(shift, m) lies in [1, m) with  *)
(* (r * rInv) mod m = 1; rInv * r - 1 is an exact multiple of m; baseInv   *)
(* lies in [1, r) with (m * baseInv) mod r = 1.                            *)
(***************************************************************************)
C24_ContextWellFormed ==
  (n >= 3 /\ reductionContext # None) =>
    LET ctx == reductionContext[1]
    IN  /\ ctx.base = n
        /\ ctx.shift = bitLength(n)
        /\ ctx.r = Pow2(ctx.shift)
        /\ ctx.r > n /\ ctx.r \div 2 <= n
        /\ ctx.rInv = invertPowerOfTwo(ctx.shift, n)
        /\ ctx.rInv >= 1 /\ ctx.rInv < n
        /\ (ctx.r * ctx.rInv) % n = 1
        /\ (ctx.rInv * ctx.r - 1) % n = 0
        /\ ctx.baseInv >= 1 /\ ctx.baseInv < ctx.r
        /\ (n * ctx.baseInv) % ctx.r = 1

\* the context of a modulus that is not one less than a power of two
C24_Witness ==
  /\ pc = "context" /\ n = 37
  /\ reductionContext[1].shift = 6 /\ reductionContext[1].r = 64
  /\ (reductionContext[1].r * reductionContext[1].rInv) % n = 1

(***************************************************************************)
(* ugcd on its own: base and i are the arguments a and b, x is the value   *)
(* returned.                                                               *)
(***************************************************************************)
InitGcd ==
  /\ base \in 0..MaxGcdArg
  /\ i \in 0..MaxGcdArg
  /\ pc = "arguments"
  /\ nIn = 0 /\ numRoundsOpt = None /\ findDivisor = TRUE
  /\ basesOpt = [kind |-> "null", items |-> << >>]
  /\ n = 0 /\ sign = 1 /\ nBits = 0 /\ r = 0 /\ d = 0
  /\ reductionContext = None /\ oneReduced = 0 /\ nSubReduced = 0
  /\ validBases = None /\ numRounds = None
  /\ probablePrime = TRUE /\ witness = None /\ divisor = None
  /\ baseIndex = 0 /\ round = 0 /\ x = 0
  /\ result = None /\ error = None
  /\ validated = FALSE /\ randomDrawn = FALSE
  /\ prev = None

ApplyUgcd ==
  /\ pc = "arguments"
  /\ x' = ugcd(base, i)
  /\ pc' = "returned"
  /\ UNCHANGED << inputs, n, sign, nBits, r, d, reductionContext, oneReduced,
                  nSubReduced, validBases, numRounds, probablePrime, witness,
                  divisor, baseIndex, round, base, i, result, error, history >>

NextGcd == ApplyUgcd

SpecGcd == InitGcd /\ [][NextGcd]_vars

(***************************************************************************)
(* C25: ugcd(a, b) terminates and returns the greatest common divisor of   *)
(* a and b for all non-negative a and b: the common value when a = b, the  *)
(* other operand when a = 0 or b = 0, and otherwise the largest number     *)
(* dividing both.                                                          *)
(***************************************************************************)
C25_UgcdIsGcd ==
  (pc = "returned") =>
    /\ x = EuclidGcd(base, i)
    /\ base = i => x = base
    /\ base = 0 => x = i
    /\ i = 0 => x = base
    /\ (base > 0 /\ i > 0) =>
         /\ x >= 1 /\ base % x = 0 /\ i % x = 0
         /\ \A k \in 1..MaxGcdArg + 1 :
              (base % k = 0 /\ i % k = 0) => k <= x

\* two different even arguments with an odd common factor: the shared factor
\* of two is stripped and put back
C25_Witness ==
  /\ pc = "returned" /\ base = 12 /\ i = 18
  /\ x = 6

(***************************************************************************)
(* C26: building a Montgomery context for an even modulus fails with an    *)
(* error, and the driver never meets that failure: primalityTest builds a  *)
(* context only for an odd n >= 5, the context built is the one of n, and  *)
(* no call ends with the 'base must be odd' error, whatever n and the      *)
(* options are.                                                            *)
(***************************************************************************)
C26_EvenModulusUnreachable ==
  /\ \A m \in 0..MaxN : (m % 2 = 0) <=> (getReductionContext(m) = None)
  /\ error # Some("Error")
  /\ pc \notin {"call", "done", "failed"} => reductionContext # None
  /\ reductionContext # None =>
       /\ n % 2 = 1 /\ n >= 5
       /\ reductionContext = getReductionContext(n)
       /\ reductionContext[1].base = n
  /\ (Abs(nIn) % 2 = 0 /\ pc # "call") =>
       (Resolved /\ reductionContext = None)

\* an even input was resolved and a context was never asked for
C26_Witness ==
  /\ Resolved /\ nIn = 6 /\ reductionContext = None
  /\ getReductionContext(Abs(nIn)) = None
  /\ result[1].divisor = Some(2)

(***************************************************************************)
(* One call of primalityTest, run to its end.  The synchronous body of the *)
(* promise executor keeps running, and the random source eventually yields *)
(* a value of [2, n-2] whenever a base is being drawn.                     *)
(***************************************************************************)
NextCall ==
  \/ Begin
  \/ Validate
  \/ NextRound
  \/ DrawBase
  \/ GcdCheck
  \/ PowStep
  \/ SquareStep
  \/ SquaresExhausted
  \/ Resolve

CallBasesChoices ==
  { [kind |-> "null", items |-> << >>], [kind |-> "scalar", items |-> << >>] }
  \cup { [kind |-> "array", items |-> s] :
            s \in SeqsUpTo(0..MaxCallBase, MaxCallBases) }

InitCall ==
  /\ nIn \in 0..MaxCallN
  /\ numRoundsOpt \in NumRoundsChoices
  /\ basesOpt \in CallBasesChoices
  /\ findDivisor \in BOOLEAN
  /\ pc = "call"
  /\ FreshLocals
  /\ result = None /\ error = None
  /\ validated = FALSE /\ randomDrawn = FALSE
  /\ prev = None

SpecCall ==
  /\ InitCall
  /\ [][NextCall]_vars
  /\ WF_vars(Begin \/ Validate \/ NextRound \/ GcdCheck \/ PowStep
               \/ SquareStep \/ SquaresExhausted \/ Resolve)
  /\ WF_vars(DrawBase /\ pc' = "gcd")

\* the promise is settled in one way only, with a complete record or an error
C27_SettledCleanly ==
  /\ pc \notin {"done", "failed"} => (result = None /\ error = None)
  /\ Resolved =>
       /\ error = None /\ result # None
       /\ DOMAIN result[1] = {"n", "probablePrime", "witness", "divisor"}
       /\ result[1].n = nIn
       /\ result[1].probablePrime \in BOOLEAN
  /\ Rejected => (result = None /\ error # None)
  /\ validBases # None => round <= Len(basesOpt.items)

\* the promise is settled by one step and nothing changes afterwards
C27_SettledOnce ==
  /\ result' # result => (result = None /\ error = None /\ pc' = "done")
  /\ error' # error => (result = None /\ error = None /\ pc' = "failed")
  /\ pc \in {"done", "failed"} => UNCHANGED vars

(***************************************************************************)
(* C27: every call of primalityTest settles exactly once, resolving with a *)
(* complete result record or rejecting with an error, never both and never *)
(* with a partial result.  With explicit bases it ends after at most       *)
(* bases.length rounds; with random bases it ends provided the random      *)
(* source eventually yields a value of [2, n-2] in each round.             *)
(***************************************************************************)
C27_SettlesExactlyOnce ==
  /\ []C27_SettledCleanly
  /\ [][C27_SettledOnce]_vars
  /\ <>(Resolved \/ Rejected)

\* a call with random bases that ran all its rounds and was resolved
C27_Witness ==
  /\ Resolved /\ randomDrawn /\ numRounds = Some(6) /\ round = 6
  /\ error = None /\ result[1].probablePrime

(***************************************************************************)
(* C28: with findDivisor enabled, whenever a round ends because squaring x *)
(* yields the Montgomery form of 1, x is a square root of 1 other than 1   *)
(* and n-1, and the divisor returned is not null: it is gcd(x - 1, n) for  *)
(* the pre-square x taken out of Montgomery form, a non-trivial divisor of *)
(* n.  A result with a witness and a null divisor therefore comes only     *)
(* from the branch where the squaring loop ran all r iterations.           *)
(***************************************************************************)
C28_SquareRootGivesDivisor ==
  (findDivisor /\ pc \in {"resolve", "done"} /\ ~probablePrime) =>
    LET ctx   == reductionContext[1]
        plain == invMontgomeryReduce(x, ctx)
    IN  /\ (EuclidGcd(n, base) = 1 /\ i < r) =>
             /\ montgomerySqr(x, ctx) = oneReduced
             /\ plain # 1 /\ plain # n - 1 /\ (plain * plain) % n = 1
             /\ divisor = Some(EuclidGcd(plain - 1, n))
             /\ divisor[1] > 1 /\ divisor[1] < n /\ n % divisor[1] = 0
             /\ Resolved => result[1].divisor = divisor
        /\ divisor = None =>
             /\ EuclidGcd(n, base) = 1
             /\ i = r
             /\ montgomerySqr(x, ctx) # oneReduced

\* a witness found through a non-trivial square root of 1, with its divisor
C28_Witness ==
  /\ Resolved /\ findDivisor /\ ~result[1].probablePrime
  /\ EuclidGcd(n, base) = 1 /\ i < r
  /\ montgomerySqr(x, reductionContext[1]) = oneReduced
  /\ result[1].divisor # None

(***************************************************************************)
(* Two calls on the same n >= 0 with the same explicit bases array and     *)
(* opposite findDivisor: the second call is made once the first has        *)
(* settled, and prev holds the outcome of the first.                       *)
(***************************************************************************)
InitFlip ==
  /\ nIn \in 0..MaxN
  /\ numRoundsOpt = None
  /\ basesOpt \in { [kind |-> "array", items |-> s] :
                      s \in SeqsUpTo(BaseValues, MaxBases) }
  /\ findDivisor \in BOOLEAN
  /\ pc = "call"
  /\ FreshLocals
  /\ result = None /\ error = None
  /\ validated = FALSE /\ randomDrawn = FALSE
  /\ prev = None

RerunOtherFindDivisor ==
  /\ pc \in {"done", "failed"}
  /\ prev = None
  /\ prev' = Some([nIn |-> nIn, result |-> result, error |-> error])
  /\ findDivisor' = ~findDivisor
  /\ pc' = "call"
  /\ n' = 0 /\ sign' = 1 /\ nBits' = 0 /\ r' = 0 /\ d' = 0
  /\ reductionContext' = None /\ oneReduced' = 0 /\ nSubReduced' = 0
  /\ validBases' = None /\ numRounds' = None
  /\ probablePrime' = TRUE /\ witness' = None /\ divisor' = None
  /\ baseIndex' = 0 /\ round' = 0 /\ base' = 0 /\ x' = 0 /\ i' = 0
  /\ result' = None /\ error' = None
  /\ validated' = FALSE /\ randomDrawn' = FALSE
  /\ UNCHANGED << nIn, numRoundsOpt, basesOpt >>

NextFlip ==
  \/ NextExplicit
  \/ RerunOtherFindDivisor

SpecFlip == InitFlip /\ [][NextFlip]_vars

(***************************************************************************)
(* C29: the verdict and the witness do not depend on findDivisor.  For     *)
(* every odd n >= 5 and every explicit bases list, the runs with           *)
(* findDivisor = true and findDivisor = false settle with the same         *)
(* probablePrime and the same witness (a base sharing a factor with n is   *)
(* found to be a witness by the squaring loop as well); only the divisor   *)
(* may differ, and without findDivisor it is null.                         *)
(***************************************************************************)
C29_VerdictIgnoresFindDivisor ==
  (prev # None /\ nIn % 2 = 1 /\ nIn >= 5 /\ (Resolved \/ Rejected)) =>
    /\ error = prev[1].error
    /\ (result = None) <=> (prev[1].result = None)
    /\ Resolved =>
         /\ result[1].n = prev[1].result[1].n
         /\ result[1].probablePrime = prev[1].result[1].probablePrime
         /\ result[1].witness = prev[1].result[1].witness
         /\ ~findDivisor => result[1].divisor = None
         /\ findDivisor => prev[1].result[1].divisor = None

\* a base sharing a factor with n: the first call stopped at the gcd check,
\* the second one found the same witness in the squaring loop
C29_Witness ==
  /\ Resolved /\ prev # None /\ ~findDivisor
  /\ nIn % 2 = 1 /\ nIn >= 5 /\ EuclidGcd(n, base) # 1
  /\ result[1].witness = Some(base)
  /\ prev[1].result[1].witness = Some(base)
  /\ prev[1].result[1].divisor # None
  /\ result[1].divisor = None

(***************************************************************************)
(* C30: with an explicit empty bases array no round runs.  For every odd   *)
(* n >= 5, prime or composite, primalityTest(n, {bases: []}) never enters  *)
(* a round (no base is taken or drawn, the loop bound is 0 whatever        *)
(* numRounds was given) and resolves with probablePrime = true,            *)
(* witness = null and divisor = null.                                      *)
(***************************************************************************)
C30_EmptyBasesNoRound ==
  (basesOpt = [kind |-> "array", items |-> << >>]
     /\ Abs(nIn) % 2 = 1 /\ Abs(nIn) >= 5) =>
    /\ pc \in {"call", "validate", "loop", "resolve", "done"}
    /\ ~randomDrawn
    /\ pc \in {"loop", "resolve", "done"} =>
         /\ validBases = Some(<< >>)
         /\ numRounds = Some(0)
         /\ round = 0 /\ baseIndex = 0
         /\ probablePrime /\ witness = None /\ divisor = None
    /\ Resolved =>
         /\ result[1].probablePrime = TRUE
         /\ result[1].witness = None
         /\ result[1].divisor = None

\* 9 with bases [] and numRounds 2 given: resolved as a probable prime
C30_Witness ==
  /\ Resolved /\ nIn = 9 /\ ~IsPrime(n)
  /\ basesOpt = [kind |-> "array", items |-> << >>]
  /\ numRoundsOpt = Some(2)
  /\ result[1].probablePrime = TRUE
  /\ result[1].witness = None /\ result[1].divisor = None

====
